---- MODULE Spec2Model ----
(***************************************************************************)
(* Session-streaming client of the Financial Advisor agent.                *)
(*                                                                         *)
(* Spec    : the Streamlit front-end (src/streamlit_app.py).  One script   *)
(*           run is cut at its suspension points: the create_session call, *)
(*           every step of the `async for` over the response stream, and   *)
(*           the await of async_get_session.                               *)
(* SpecCli : the command-line entry points: the clients src/use_agent.py   *)
(*           and src/deployment/test_deployment.py (whose main() bodies    *)
(*           are the same from the argument check on), and the main() of   *)
(*           src/deployment/deploy.py and src/deployment/update.py.        *)
(***************************************************************************)
EXTENDS Integers, Sequences, FiniteSets, TLC

\* ------------------------------------------------------------------ bounds
MaxSessions == 2      \* sessions the server creates in one run
MaxCreateCalls == 3   \* create_session calls (successful or not) in one run
MaxSubmits == 2       \* prompts submitted in one run
MaxFrags == 2         \* fragments the server delivers in one run

\* ------------------------------------------------------- Python values
\* Text is a sequence of tokens; "content" stands for any text that holds the
\* substring "content", which the CLI's `"content" in event` test looks for.
None == 0

Part(hasText, text) == [hasText |-> hasText, text |-> text]

\* A fragment as the stream delivers it: a dict (with or without a "content"
\* key, whose value is a dict with or without "parts"), a str, or an int.
Fragment(kind, hasContent, hasParts, parts, str) ==
    [kind |-> kind, hasContent |-> hasContent, hasParts |-> hasParts,
     parts |-> parts, str |-> str]

TextEvent(parts) == Fragment("dict", TRUE, TRUE, parts, <<>>)
NoContentEvent == Fragment("dict", FALSE, FALSE, <<>>, <<>>)
NoPartsEvent == Fragment("dict", TRUE, FALSE, <<>>, <<>>)
RawText(s) == Fragment("str", FALSE, FALSE, <<>>, s)
Number == Fragment("int", FALSE, FALSE, <<>>, <<>>)

Fragments ==
    { TextEvent(<<Part(TRUE, <<"Ticker ">>)>>),
      TextEvent(<<Part(FALSE, <<>>), Part(TRUE, <<"GOOGL">>)>>),
      NoContentEvent,
      NoPartsEvent,
      RawText(<<"raw">>),
      RawText(<<"content">>),
      Number }

Prompts == { <<"GOOGL">> }

\* Python's `key in x`: key membership of a dict, substring test of a str,
\* TypeError for an int.
In(key, x, hasKey) ==
    CASE x.kind = "dict" -> IF hasKey THEN "True" ELSE "False"
      [] x.kind = "str"  -> IF \E i \in 1..Len(x.str) : x.str[i] = key
                            THEN "True" ELSE "False"
      [] OTHER           -> "TypeError"

RECURSIVE PartTexts(_)
\* for part in parts: if "text" in part: ... part["text"]
PartTexts(parts) ==
    IF parts = <<>> THEN <<>>
    ELSE (IF Head(parts).hasText THEN <<Head(parts).text>> ELSE <<>>)
         \o PartTexts(Tail(parts))

Ok(texts) == [error |-> FALSE, texts |-> texts]
Raise == [error |-> TRUE, texts |-> <<>>]

RECURSIVE Concat(_)
Concat(texts) == IF texts = <<>> THEN <<>> ELSE Head(texts) \o Concat(Tail(texts))

IsPrefix(s, t) == Len(s) <= Len(t) /\ SubSeq(t, 1, Len(s)) = s

\* What the data model asks of one fragment: the texts of the text-bearing
\* parts of a structured event, the text of a raw string, nothing otherwise.
Contribution(f) ==
    CASE f.kind = "dict" /\ f.hasContent /\ f.hasParts -> PartTexts(f.parts)
      [] f.kind = "str" -> <<f.str>>
      [] OTHER -> <<>>

IsUnknown(f) == ~(f.kind = "dict" /\ f.hasContent /\ f.hasParts) /\ f.kind # "str"

\* The texts one chunk appends in the Streamlit handler.
ChunkTexts(chunk) ==
    IF chunk.kind = "dict" /\ In("content", chunk, chunk.hasContent) = "True"
       /\ chunk.hasParts
    THEN Ok(PartTexts(chunk.parts))
    ELSE IF chunk.kind = "str" THEN Ok(<<chunk.str>>) ELSE Ok(<<>>)

\* The texts one event prints in the command-line clients: the "content" test
\* is applied to the event whatever its type.
EventTexts(event) ==
    LET c == In("content", event, event.hasContent) IN
    IF c = "TypeError" THEN Raise
    ELSE IF c = "True"
         THEN IF event.kind = "str" THEN Raise   \* event["content"] on a str
              ELSE IF event.hasParts THEN Ok(PartTexts(event.parts)) ELSE Ok(<<>>)
         ELSE IF event.kind = "str" THEN Ok(<<event.str>>) ELSE Ok(<<>>)

\* --------------------------------------------------- Streamlit front-end
VARIABLES
    session_id,             \* st.session_state.session_id (None or an id)
    sessions,               \* st.session_state.sessions: list of session objects
    messages,               \* st.session_state.messages: id -> list of turns
    user_id,                \* st.session_state.user_id
    pc,                     \* where the script run is suspended
    full_response_content,  \* the accumulator of get_response_and_session
    rendered,               \* what message_placeholder.markdown was given, in order
    server,                 \* the service: per session, the queries it received
    outcome,                \* how the last script run ended
    createCalls,            \* create_session calls issued
    newChats,               \* "New Chat" clicks
    submits,                \* prompts submitted
    expected,               \* concatenated contributions of the fragments delivered
    nChunks,                \* fragments delivered so far
    call                    \* the remote call the script run is suspended in

\* --------------------------------------------------- command-line entry points
VARIABLES
    cli_script,             \* which main() runs
    cli_argv,               \* sys.argv
    cli_env,                \* the configuration variables that are set
    cli_ops,                \* the SDK and remote operations performed, in order
    cli_exit,               \* the exit status (None while main() runs)
    cli_pc,                 \* position in main()
    cli_session,            \* session_id of main() (None before step 4)
    cli_event,              \* the loop variable `event`: the last event delivered
    cli_out,                \* response text printed by the streaming loop
    cli_status,             \* what main() reported last
    cli_expected,           \* concatenated contributions of the events delivered
    cli_n                   \* events delivered

appVars == <<session_id, sessions, messages, user_id, pc, full_response_content,
             rendered, server, outcome, createCalls, newChats,
             submits, expected, nChunks, call>>
cliVars == <<cli_script, cli_argv, cli_env, cli_ops, cli_exit, cli_pc, cli_session,
             cli_event, cli_out, cli_status, cli_expected, cli_n>>
vars == <<appVars, cliVars>>

Turn(role, content) == [role |-> role, content |-> content]
SessionObj(id, state) == [id |-> id, state |-> state]
Render(text, cursor) == [text |-> text, cursor |-> cursor]

\* A call of the remote agent with the identities it is given.
Call(op, uid, sid) == [op |-> op, user_id |-> uid, session_id |-> sid]
NoCall == Call("none", None, None)

\* agent.create_session(user_id=st.session_state.user_id)
CreateSessionCall == Call("create_session", user_id, None)

\* The stream query issued for the first session of the list.
StreamQueryCallFirst == Call("stream_query", user_id, sessions[1].id)

\* agent.async_stream_query(user_id=..., session_id=..., message=prompt)
StreamQueryCall == Call("stream_query", user_id, session_id)

\* agent.async_get_session(session_id=..., user_id=...)
GetSessionCall == Call("get_session", user_id, session_id)

\* The Session Controller's state, read off the script position.
ControllerState(p, sid) ==
    CASE p = "creating"    -> "Creating"
      [] p = "streaming"   -> "Querying"
      [] p = "get_session" -> "Reconciling"
      [] OTHER             -> IF sid = None THEN "NoSession" ELSE "Active"

\* The script runs that ended by an exception, which Streamlit displays.
Surfaced == outcome \in {"create_error", "stream_error", "get_session_error"}

\* The accumulator assigned instead of extended.
AccumulateOverwrite(full, text) == text

\* full_response_content += text
Accumulate(full, text) == full \o text

RECURSIVE AccumulateAll(_, _)
AccumulateAll(full, texts) ==
    IF texts = <<>> THEN full
    ELSE AccumulateAll(Accumulate(full, Head(texts)), Tail(texts))

RECURSIVE Renders(_, _)
\* message_placeholder.markdown(full_response_content + cursor) after each text
Renders(full, texts) ==
    IF texts = <<>> THEN <<>>
    ELSE <<Render(Accumulate(full, Head(texts)), TRUE)>>
         \o Renders(Accumulate(full, Head(texts)), Tail(texts))

\* The turn sequence started afresh by every user turn.
SetDefaultOverwrites(msgs, sid, turn) == (sid :> <<turn>>) @@ msgs

\* st.session_state.messages.setdefault(sid, []).append(turn)
SetDefaultAppend(msgs, sid, turn) ==
    IF sid \in DOMAIN msgs
    THEN [msgs EXCEPT ![sid] = Append(@, turn)]
    ELSE (sid :> <<turn>>) @@ msgs

\* The fetched session object stored in the first record of the list.
ReplaceHead(list, sid, obj) == IF list = <<>> THEN list ELSE [list EXCEPT ![1] = obj]

\* The fetched session object added to the list instead of replacing its record.
ReplaceFirstAppends(list, sid, obj) == Append(list, obj)

\* for i, s in enumerate(sessions): if s["id"] == sid: sessions[i] = obj; break
ReplaceFirst(list, sid, obj) ==
    LET hits == { i \in 1..Len(list) : list[i].id = sid } IN
    IF hits = {} THEN list
    ELSE LET first == CHOOSE i \in hits : \A j \in hits : i <= j
         IN [list EXCEPT ![first] = obj]

session_options == [i \in 1..Len(sessions) |-> sessions[i].id]

LocalsGone ==
    /\ full_response_content' = <<>>
    /\ rendered' = <<>>
    /\ expected' = <<>>
    /\ nChunks' = nChunks

AppInit ==
    /\ session_id = None
    /\ sessions = <<>>
    /\ messages = <<>>
    /\ user_id = "streamlit-user"
    /\ pc = "idle"
    /\ full_response_content = <<>>
    /\ rendered = <<>>
    /\ server = <<>>
    /\ outcome = "none"
    /\ createCalls = 0
    /\ newChats = 0
    /\ submits = 0
    /\ expected = <<>>
    /\ nChunks = 0
    /\ call = NoCall

\* Resource names are sequences of path segments.
ResourceIds ==
    { <<"456">>,
      <<"projects", "p", "locations", "l", "reasoningEngines", "456">> }

PROJECT == "GOOGLE_CLOUD_PROJECT"
LOCATION == "GOOGLE_CLOUD_LOCATION"
BUCKET == "GOOGLE_CLOUD_STORAGE_BUCKET"
EnvNames == { PROJECT, LOCATION, BUCKET }

Scripts == { "use_agent", "test_deployment", "deploy", "update" }

\* The command lines a script is started with: no argument or one resource name.
Argvs(script) == { <<script>> } \cup { <<script, r>> : r \in ResourceIds }

\* len(sys.argv) < 2
TooFewArguments(argv) == Len(argv) < 2

\* engine_name.startswith("projects/")
StartsWithProjects(name) == Len(name) > 1 /\ name[1] = "projects"

CliStart ==
    /\ cli_pc = "start"
    /\ cli_ops = <<>>
    /\ cli_exit = None
    /\ cli_session = None
    /\ cli_event = NoContentEvent
    /\ cli_out = <<>>
    /\ cli_status = "none"
    /\ cli_expected = <<>>
    /\ cli_n = 0

\* The front-end starts; no command-line entry point runs.
Init ==
    /\ AppInit
    /\ CliStart
    /\ cli_script = "none"
    /\ cli_argv = <<>>
    /\ cli_env = {}

\* One command-line entry point starts, with any command line and any subset
\* of the configuration variables set; the front-end does not run.
InitCli ==
    /\ AppInit
    /\ CliStart
    /\ cli_script \in Scripts
    /\ cli_argv \in Argvs(cli_script)
    /\ cli_env \in SUBSET EnvNames

\* A script run with no session enters create_new_session (lines 136-137).
PageLoad ==
    /\ pc = "idle"
    /\ session_id = None
    /\ createCalls < MaxCreateCalls
    /\ pc' = "creating"
    /\ createCalls' = createCalls + 1
    /\ outcome' = "none"
    /\ call' = CreateSessionCall
    /\ UNCHANGED <<session_id, sessions, messages, user_id, full_response_content,
                   rendered, server, newChats, submits, expected, nChunks>>
    /\ UNCHANGED cliVars

\* The "New Chat" button enters create_new_session (lines 101-102).
NewChat ==
    /\ pc = "idle"
    /\ createCalls < MaxCreateCalls
    /\ pc' = "creating"
    /\ createCalls' = createCalls + 1
    /\ newChats' = newChats + 1
    /\ outcome' = "none"
    /\ call' = CreateSessionCall
    /\ UNCHANGED <<session_id, sessions, messages, user_id, full_response_content,
                   rendered, server, submits, expected, nChunks>>
    /\ UNCHANGED cliVars

\* create_new_session pointing at the new session without recording it.
create_new_session_unrecorded ==
    /\ pc = "creating"
    /\ Len(server) < MaxSessions
    /\ LET new_session_obj == SessionObj(Len(server) + 1, 0) IN
        /\ session_id' = new_session_obj.id
        /\ sessions' = sessions
        /\ messages' = messages
        /\ server' = Append(server, 0)
    /\ pc' = "rerun"
    /\ call' = NoCall
    /\ UNCHANGED <<user_id, full_response_content, rendered, outcome, createCalls,
                   newChats, submits, expected, nChunks>>
    /\ UNCHANGED cliVars

\* create_new_session keeping only the new session in the list.
create_new_session_alone ==
    /\ pc = "creating"
    /\ Len(server) < MaxSessions
    /\ LET new_session_obj == SessionObj(Len(server) + 1, 0) IN
        /\ session_id' = new_session_obj.id
        /\ sessions' = <<new_session_obj>>
        /\ messages' = [s \in DOMAIN messages \cup {session_id'} |->
                          IF s = session_id' THEN <<>> ELSE messages[s]]
        /\ server' = Append(server, 0)
    /\ pc' = "rerun"
    /\ call' = NoCall
    /\ UNCHANGED <<user_id, full_response_content, rendered, outcome, createCalls,
                   newChats, submits, expected, nChunks>>
    /\ UNCHANGED cliVars

\* agent.create_session returned: lines 80-82, then st.rerun().
create_new_session ==
    /\ pc = "creating"
    /\ Len(server) < MaxSessions
    /\ LET new_session_obj == SessionObj(Len(server) + 1, 0) IN
        /\ session_id' = new_session_obj.id
        /\ sessions' = Append(sessions, new_session_obj)
        /\ messages' = [s \in DOMAIN messages \cup {session_id'} |->
                          IF s = session_id' THEN <<>> ELSE messages[s]]
        /\ server' = Append(server, 0)
    /\ pc' = "rerun"
    /\ call' = NoCall
    /\ UNCHANGED <<user_id, full_response_content, rendered, outcome, createCalls,
                   newChats, submits, expected, nChunks>>
    /\ UNCHANGED cliVars

\* create_new_session with the session pointer cleared before the call.
create_session_raises_cleared ==
    /\ pc = "creating"
    /\ pc' = "idle"
    /\ outcome' = "create_error"
    /\ call' = NoCall
    /\ session_id' = None
    /\ UNCHANGED <<sessions, messages, user_id, full_response_content,
                   rendered, server, createCalls, newChats, submits, expected,
                   nChunks>>
    /\ UNCHANGED cliVars

\* agent.create_session raised: the exception leaves the script run (line 79).
create_session_raises ==
    /\ pc = "creating"
    /\ pc' = "idle"
    /\ outcome' = "create_error"
    /\ call' = NoCall
    /\ UNCHANGED <<session_id, sessions, messages, user_id, full_response_content,
                   rendered, server, createCalls, newChats, submits, expected,
                   nChunks>>
    /\ UNCHANGED cliVars

\* The script run st.rerun() asked for: no widget fired, so only line 136 acts.
Rerun ==
    /\ pc = "rerun"
    /\ pc' = IF session_id = None THEN "creating" ELSE "idle"
    /\ createCalls' = IF session_id = None THEN createCalls + 1 ELSE createCalls
    /\ call' = IF session_id = None THEN CreateSessionCall ELSE NoCall
    /\ UNCHANGED <<session_id, sessions, messages, user_id, full_response_content,
                   rendered, server, outcome, newChats, submits, expected, nChunks>>
    /\ UNCHANGED cliVars

\* The selector starting the selected session afresh.
SelectSessionClears(selected_session_id) ==
    /\ pc = "idle"
    /\ sessions # <<>>
    /\ \E i \in 1..Len(sessions) : session_options[i] = selected_session_id
    /\ selected_session_id # session_id
    /\ session_id' = selected_session_id
    /\ messages' = [messages EXCEPT ![selected_session_id] = <<>>]
    /\ pc' = "rerun"
    /\ outcome' = "none"
    /\ UNCHANGED <<sessions, user_id, full_response_content, rendered,
                   server, createCalls, newChats, submits, expected, nChunks, call>>
    /\ UNCHANGED cliVars

\* The session selector (lines 106-126).  A selection made while a query is in
\* flight first stops that script run (ScriptStopped); line 125 is executed by
\* the script run that follows.
SelectSession(selected_session_id) ==
    /\ pc = "idle"
    /\ sessions # <<>>
    /\ \E i \in 1..Len(sessions) : session_options[i] = selected_session_id
    /\ selected_session_id # session_id
    /\ session_id' = selected_session_id
    /\ pc' = "rerun"
    /\ outcome' = "none"
    /\ UNCHANGED <<sessions, messages, user_id, full_response_content, rendered,
                   server, createCalls, newChats, submits, expected, nChunks, call>>
    /\ UNCHANGED cliVars

\* The chat input handler up to the stream query: lines 143-165.
StartQuery(prompt) ==
    /\ messages' = SetDefaultAppend(messages, session_id, Turn("user", prompt))
    /\ call' = StreamQueryCall
    /\ server' = [server EXCEPT ![call'.session_id] = @ + 1]
    /\ submits' = submits + 1
    /\ pc' = "streaming"
    /\ LocalsGone
    /\ UNCHANGED <<session_id, sessions, user_id, createCalls, newChats>>
    /\ UNCHANGED cliVars

\* A prompt submitted while no script run is in progress.
ChatInput(prompt) ==
    /\ pc = "idle"
    /\ session_id # None
    /\ submits < MaxSubmits
    /\ outcome' = "none"
    /\ StartQuery(prompt)

\* A prompt submitted while the stream of the previous one is being consumed:
\* the run in progress is stopped at its next message_placeholder.markdown
\* call and the script runs again with the new prompt; nothing tests for a
\* query in flight before line 148.
ChatInputWhileStreaming(prompt) ==
    /\ pc = "streaming"
    /\ submits < MaxSubmits
    /\ outcome' = "interrupted"
    /\ StartQuery(prompt)

\* One step of `async for chunk in response_stream`: lines 167-178.
StreamChunk(chunk) ==
    /\ pc = "streaming"
    /\ nChunks < MaxFrags
    /\ LET r == ChunkTexts(chunk) IN
        /\ ~r.error
        /\ full_response_content' = AccumulateAll(full_response_content, r.texts)
        /\ rendered' = rendered \o Renders(full_response_content, r.texts)
    /\ expected' = expected \o Concat(Contribution(chunk))
    /\ nChunks' = nChunks + 1
    /\ UNCHANGED <<session_id, sessions, messages, user_id, pc, server, outcome,
                   createCalls, newChats, submits, call>>
    /\ UNCHANGED cliVars

\* The assistant turn appended as soon as the stream is exhausted, before
\* async_get_session is awaited.
StreamEndCommits ==
    /\ pc = "streaming"
    /\ rendered' = Append(rendered, Render(full_response_content, FALSE))
    /\ pc' = "get_session"
    /\ call' = GetSessionCall
    /\ messages' = [messages EXCEPT ![session_id] =
                      Append(@, Turn("assistant", full_response_content))]
    /\ UNCHANGED <<session_id, sessions, user_id, full_response_content,
                   server, outcome, createCalls, newChats, submits, expected,
                   nChunks>>
    /\ UNCHANGED cliVars

\* The stream is exhausted: line 179, then async_get_session is awaited.
StreamEnd ==
    /\ pc = "streaming"
    /\ rendered' = Append(rendered, Render(full_response_content, FALSE))
    /\ pc' = "get_session"
    /\ call' = GetSessionCall
    /\ UNCHANGED <<session_id, sessions, messages, user_id, full_response_content,
                   server, outcome, createCalls, newChats, submits, expected,
                   nChunks>>
    /\ UNCHANGED cliVars

\* The script run ends by an exception raised inside
\* asyncio.run(get_response_and_session(prompt)): nothing catches it, so lines
\* 194-206 are not executed.
HandlerRaises(how) ==
    /\ pc' = "idle"
    /\ outcome' = how
    /\ call' = NoCall
    /\ LocalsGone
    /\ UNCHANGED <<session_id, sessions, messages, user_id, server, createCalls,
                   newChats, submits>>
    /\ UNCHANGED cliVars

\* The iteration of the stream raises (line 167).
StreamRaises ==
    /\ pc = "streaming"
    /\ HandlerRaises("stream_error")

\* async_get_session raises (line 184).
GetSessionRaises ==
    /\ pc = "get_session"
    /\ HandlerRaises("get_session_error")

\* The stopped run committing what it had accumulated (a `finally` around the
\* stream).
ScriptStoppedCommits ==
    /\ pc \in {"streaming", "get_session"}
    /\ pc' = "idle"
    /\ outcome' = "cancelled"
    /\ call' = NoCall
    /\ messages' = [messages EXCEPT ![session_id] =
                      Append(@, Turn("assistant", full_response_content))]
    /\ LocalsGone
    /\ UNCHANGED <<session_id, sessions, user_id, server, createCalls, newChats,
                   submits>>
    /\ UNCHANGED cliVars

\* The consumer abandons the query: the script run is stopped while it is in
\* get_response_and_session.
ScriptStopped ==
    /\ pc \in {"streaming", "get_session"}
    /\ HandlerRaises("cancelled")

\* async_get_session returned: lines 188-206.
GetSessionReturns ==
    /\ pc = "get_session"
    /\ LET updated_session_obj == SessionObj(call.session_id, server[call.session_id]) IN
        /\ messages' = [messages EXCEPT ![session_id] =
                          Append(@, Turn("assistant", full_response_content))]
        /\ sessions' = ReplaceFirst(sessions, session_id, updated_session_obj)
    /\ outcome' = "committed"
    /\ pc' = "rerun"
    /\ call' = NoCall
    /\ LocalsGone
    /\ UNCHANGED <<session_id, user_id, server, createCalls, newChats, submits>>
    /\ UNCHANGED cliVars

Next ==
    \/ PageLoad
    \/ NewChat
    \/ create_new_session
    \/ create_session_raises
    \/ Rerun
    \/ \E sid \in 1..MaxSessions : SelectSession(sid)
    \/ \E prompt \in Prompts : ChatInput(prompt)
    \/ \E prompt \in Prompts : ChatInputWhileStreaming(prompt)
    \/ \E chunk \in Fragments : StreamChunk(chunk)
    \/ StreamEnd
    \/ StreamRaises
    \/ GetSessionRaises
    \/ ScriptStopped
    \/ GetSessionReturns

Spec == Init /\ [][Next]_vars

\* ------------------------------------------------ command-line entry points
CliFrame == UNCHANGED <<cli_script, cli_argv, cli_env>> /\ UNCHANGED appVars

\* sys.exit(1) after a message.
CliExit(status) ==
    /\ cli_pc' = "exited"
    /\ cli_status' = status
    /\ cli_exit' = 1

\* main() returns after a message.
CliReturn(status) ==
    /\ cli_pc' = "returned"
    /\ cli_status' = status
    /\ cli_exit' = 0

\* An exception nothing catches leaves main(): a traceback, exit status 1.
CliUncaught ==
    /\ cli_pc' = "raised"
    /\ cli_status' = "traceback"
    /\ cli_exit' = 1

\* Steps 0-1 of main() in use_agent.py and test_deployment.py: the argument
\* check and the engine name (lines 14-36).
CliParse ==
    /\ cli_script \in {"use_agent", "test_deployment"}
    /\ cli_pc = "start"
    /\ IF TooFewArguments(cli_argv)
       THEN CliExit("usage")
       ELSE IF ~StartsWithProjects(cli_argv[2]) /\ PROJECT \notin cli_env
            THEN CliExit("project_required")
            ELSE cli_pc' = "init" /\ UNCHANGED <<cli_status, cli_exit>>
    /\ UNCHANGED <<cli_ops, cli_session, cli_event, cli_out, cli_expected, cli_n>>
    /\ CliFrame

\* main() of deploy.py up to vertexai.init: the three configuration checks
\* (lines 75-94).
DeployMain ==
    /\ cli_script = "deploy"
    /\ cli_pc = "start"
    /\ IF PROJECT \notin cli_env THEN CliReturn("missing_project")
       ELSE IF LOCATION \notin cli_env THEN CliReturn("missing_location")
       ELSE IF BUCKET \notin cli_env THEN CliReturn("missing_bucket")
       ELSE cli_pc' = "init" /\ UNCHANGED <<cli_status, cli_exit>>
    /\ UNCHANGED <<cli_ops, cli_session, cli_event, cli_out, cli_expected, cli_n>>
    /\ CliFrame

\* main() of update.py going on to vertexai.init without the argument check.
UpdateMainUnchecked ==
    /\ cli_script = "update"
    /\ cli_pc = "start"
    /\ cli_pc' = "init"
    /\ UNCHANGED <<cli_status, cli_exit>>
    /\ UNCHANGED <<cli_ops, cli_session, cli_event, cli_out, cli_expected, cli_n>>
    /\ CliFrame

\* main() of update.py up to vertexai.init: the argument check (lines 50-61).
UpdateMain ==
    /\ cli_script = "update"
    /\ cli_pc = "start"
    /\ IF TooFewArguments(cli_argv)
       THEN CliExit("usage")
       ELSE cli_pc' = "init" /\ UNCHANGED <<cli_status, cli_exit>>
    /\ UNCHANGED <<cli_ops, cli_session, cli_event, cli_out, cli_expected, cli_n>>
    /\ CliFrame

\* vertexai.init, then the operation of the script.
CliInit ==
    /\ cli_pc = "init"
    /\ cli_ops' = Append(cli_ops, "vertexai.init")
    /\ cli_pc' = CASE cli_script = "deploy" -> "create"
                   [] cli_script = "update" -> "update"
                   [] OTHER                 -> "get_agent"
    /\ UNCHANGED <<cli_exit, cli_session, cli_event, cli_out, cli_status, cli_expected,
                   cli_n>>
    /\ CliFrame

\* create() of deploy.py: agent_engines.create; main() catches nothing.
DeployCreate(ok) ==
    /\ cli_pc = "create"
    /\ cli_ops' = Append(cli_ops, "agent_engines.create")
    /\ IF ok THEN CliReturn("created") ELSE CliUncaught
    /\ UNCHANGED <<cli_session, cli_event, cli_out, cli_expected, cli_n>>
    /\ CliFrame

\* update() of update.py: agent_engines.update; main() catches nothing.
UpdateUpdate(ok) ==
    /\ cli_pc = "update"
    /\ cli_ops' = Append(cli_ops, "agent_engines.update")
    /\ IF ok THEN CliReturn("updated") ELSE CliUncaught
    /\ UNCHANGED <<cli_session, cli_event, cli_out, cli_expected, cli_n>>
    /\ CliFrame

\* Step 3: agent_engines.get (lines 42-47).
CliGetAgent(ok) ==
    /\ cli_pc = "get_agent"
    /\ cli_ops' = Append(cli_ops, "agent_engines.get")
    /\ IF ok
       THEN cli_pc' = "create_session" /\ cli_status' = "connected"
            /\ cli_exit' = cli_exit
       ELSE CliReturn("connect_error")
    /\ UNCHANGED <<cli_session, cli_event, cli_out, cli_expected, cli_n>>
    /\ CliFrame

\* Step 4: remote_agent.create_session (lines 51-58); on success step 5 issues
\* the stream query (line 68).
CliCreateSession(ok) ==
    /\ cli_pc = "create_session"
    /\ IF ok
       THEN /\ cli_pc' = "streaming" /\ cli_session' = 1 /\ cli_status' = "session"
            /\ cli_exit' = cli_exit
            /\ cli_ops' = cli_ops \o <<"create_session", "stream_query">>
       ELSE /\ CliReturn("session_error") /\ cli_session' = cli_session
            /\ cli_ops' = Append(cli_ops, "create_session")
    /\ UNCHANGED <<cli_event, cli_out, cli_expected, cli_n>>
    /\ CliFrame

\* Step 5, one event of the `async for` (lines 68-79); an exception raised by
\* the loop body is caught at line 82, which ends the loop.
CliEvent(event) ==
    /\ cli_pc = "streaming"
    /\ cli_n < MaxFrags
    /\ LET r == EventTexts(event) IN
        IF r.error
        THEN CliReturn("stream_error") /\ cli_out' = cli_out
        ELSE cli_pc' = "streaming" /\ cli_status' = cli_status
             /\ cli_exit' = cli_exit
             /\ cli_out' = cli_out \o Concat(r.texts)
    /\ cli_expected' = cli_expected \o Concat(Contribution(event))
    /\ cli_event' = event
    /\ cli_n' = cli_n + 1
    /\ UNCHANGED <<cli_ops, cli_session>>
    /\ CliFrame

\* The stream is exhausted (line 81).
CliStreamEnd ==
    /\ cli_pc = "streaming"
    /\ CliReturn("completed")
    /\ UNCHANGED <<cli_ops, cli_session, cli_event, cli_out, cli_expected, cli_n>>
    /\ CliFrame

\* The iteration of the stream raises; line 82 catches it.
CliStreamRaises ==
    /\ cli_pc = "streaming"
    /\ CliReturn("stream_error")
    /\ UNCHANGED <<cli_ops, cli_session, cli_event, cli_out, cli_expected, cli_n>>
    /\ CliFrame

CliNext ==
    \/ CliParse
    \/ DeployMain
    \/ UpdateMain
    \/ CliInit
    \/ \E ok \in BOOLEAN : DeployCreate(ok)
    \/ \E ok \in BOOLEAN : UpdateUpdate(ok)
    \/ \E ok \in BOOLEAN : CliGetAgent(ok)
    \/ \E ok \in BOOLEAN : CliCreateSession(ok)
    \/ \E event \in Fragments : CliEvent(event)
    \/ CliStreamEnd
    \/ CliStreamRaises

SpecCli == InitCli /\ [][CliNext]_vars

\* ------------------------------------------------------------------ claims
Last(seq) == seq[Len(seq)]

\* C1: when the stream raises after delivering f1..fk, an error is surfaced and
\* the assistant turn committed to the session is the concatenation of the text
\* contributions of f1..fk.
C1_PartialFailurePreserved ==
    [][(pc = "streaming" /\ outcome' = "stream_error")
        => /\ Surfaced'
           /\ messages'[session_id] =
                Append(messages[session_id], Turn("assistant", expected))]_vars

StreamTerminates == pc = "streaming" /\ pc' # "streaming" /\ outcome' # "cancelled"

\* C2: when a stream ends, by exhaustion or by an error, get_session is called
\* for the session; when it returns, the stored snapshot of the session is the
\* one it returned and the controller is Active again.
C2_ReconciliationFollowsQuery ==
    [][/\ StreamTerminates => pc' = "get_session"
       /\ (pc = "get_session" /\ outcome' = "committed")
            => /\ \E i \in 1..Len(sessions') :
                     sessions'[i] = SessionObj(session_id, server[session_id])
               /\ ControllerState(pc', session_id') = "Active"]_vars

Alternates(turns) ==
    \A i \in 1..Len(turns) :
        turns[i].role = IF i % 2 = 1 THEN "user" ELSE "assistant"

Pending(s) == s = session_id /\ pc \in {"streaming", "get_session"}

TurnOrder ==
    \A s \in DOMAIN messages :
        /\ Alternates(messages[s])
        /\ Len(messages[s]) % 2 = 1 => Pending(s)

\* C3: the roles of every turn sequence alternate user, assistant, ..., with a
\* trailing user turn only while its query is pending; every submit, stream
\* completion, stream error, new-session and switch-session step keeps it so.
C3_TurnOrdering ==
    [][(TurnOrder /\ outcome' \notin {"cancelled", "interrupted", "get_session_error"})
        => TurnOrder']_vars

\* C4: a prompt submitted while a query is in flight is rejected with a busy
\* error: no user turn is appended, no stream query is issued, and the query in
\* flight keeps its accumulated text and its position.
C4_BusyRejection ==
    [][(pc \in {"streaming", "get_session"} /\ submits' # submits)
        => /\ outcome' = "busy_error"
           /\ UNCHANGED <<messages, server, pc, full_response_content, rendered>>]_vars

\* C5: every text given to the observer has every text given before as a
\* prefix, the last one given is the accumulator, and the observer has been
\* invoked once a fragment with text was delivered.
C5_MonotonicPrefix ==
    /\ \A i, j \in 1..Len(rendered) :
          i <= j => IsPrefix(rendered[i].text, rendered[j].text)
    /\ rendered # <<>> => Last(rendered).text = full_response_content
    /\ expected # <<>> => rendered # <<>>

C5_Witness ==
    /\ pc = "get_session"
    /\ Len(rendered) = 3
    /\ rendered[1].text = <<"Ticker ">>
    /\ rendered[2].text = <<"Ticker ", "GOOGL">>
    /\ ~rendered[3].cursor

\* C6: once the streaming loop is over, the text produced is the concatenation,
\* in arrival order, of the text parts of the structured events and of the raw
\* strings delivered.
C6_AggregationResult ==
    cli_pc = "returned" => cli_out = cli_expected

\* C7: a fragment that is neither a structured event with parts nor a raw
\* string raises nothing, leaves the text unchanged and does not end the loop.
C7_UnknownFragmentsIgnored ==
    [][(cli_pc = "streaming" /\ cli_n' = cli_n + 1 /\ IsUnknown(cli_event'))
        => /\ cli_status' # "stream_error"
           /\ cli_out' = cli_out
           /\ cli_pc' = "streaming"]_vars

FirstUse ==
    /\ newChats = 0
    /\ submits <= 1
    /\ createCalls = Len(server) + (IF pc = "creating" THEN 1 ELSE 0)
    /\ outcome \notin {"cancelled", "interrupted"}

Succession ==
    { <<"NoSession", "Creating">>, <<"Creating", "Active">>, <<"Active", "Querying">>,
      <<"Querying", "Reconciling">>, <<"Reconciling", "Active">> }

\* C8: with no session at the start, one submitted message and no new-session
\* request, create_session is called once, before the stream query, which uses
\* the id it returned, and the controller goes NoSession, Creating, Active,
\* Querying, Reconciling, Active.
C8_FirstUseSessionCreation ==
    [][FirstUse'
        => /\ createCalls' <= 1
           /\ pc' = "streaming"
                => /\ createCalls' = 1
                   /\ Len(sessions') = 1
                   /\ session_id' = sessions'[1].id
           /\ \/ ControllerState(pc', session_id') = ControllerState(pc, session_id)
              \/ <<ControllerState(pc, session_id), ControllerState(pc', session_id')>>
                    \in Succession]_vars

\* C9: when create_session fails, the error is surfaced, the current-session
\* pointer, the session list and every turn sequence are as before, the script
\* run is over (no retry) and no query is issued.
C9_CreateFailureNoSideEffects ==
    [][(pc = "creating" /\ Len(server') = Len(server))
        => /\ Surfaced'
           /\ UNCHANGED <<session_id, sessions, messages, server, createCalls, submits>>
           /\ pc' = "idle"
           /\ ControllerState(pc', session_id') =
                IF session_id = None THEN "NoSession" ELSE "Active"]_vars

C9_Witness ==
    /\ outcome = "create_error"
    /\ pc = "idle"
    /\ session_id # None
    /\ Len(sessions) = 1
    /\ Len(messages[session_id]) = 2
    /\ messages[session_id][2].role = "assistant"

\* C10: when the consumer abandons a query before the reconciliation is done,
\* no assistant turn is appended, the stored snapshots are unchanged, and the
\* session is Active with the user turn as its last turn.
C10_CancellationCommitsNothing ==
    [][(pc \in {"streaming", "get_session"} /\ outcome' = "cancelled")
        => /\ UNCHANGED <<messages, sessions, session_id>>
           /\ ControllerState(pc', session_id') = "Active"
           /\ Last(messages'[session_id']).role = "user"]_vars

C10_Witness ==
    /\ outcome = "cancelled"
    /\ pc = "idle"
    /\ nChunks > 0
    /\ Len(messages[session_id]) = 1

\* A step that appends an assistant turn to some turn sequence.
AssistantAppended ==
    \E s \in DOMAIN messages' :
        /\ s \in DOMAIN messages
        /\ Len(messages'[s]) > Len(messages[s])
        /\ Last(messages'[s]).role = "assistant"

\* C11: within a request cycle the user turn is in the turn sequence when the
\* stream query is issued, the accumulator holds the contributions of the
\* fragments in the order they were delivered, and an assistant turn is
\* appended only by the step in which get_session returns, after the stream
\* has ended: never while the stream or the get_session call is pending.
C11_CommitOrdering ==
    [][/\ call'.op = "stream_query"
            => Last(messages'[call'.session_id]).role = "user"
       /\ nChunks' # nChunks => full_response_content' = expected'
       /\ AssistantAppended
            => /\ call.op = "get_session"
               /\ pc = "get_session"
               /\ call' = NoCall
               /\ pc' \notin {"streaming", "get_session"}
               /\ Last(messages'[session_id]).content = expected]_vars

C11_Witness ==
    /\ outcome = "committed"
    /\ call = NoCall
    /\ nChunks = 2
    /\ messages[session_id] =
         << Turn("user", <<"GOOGL">>), Turn("assistant", <<"Ticker ", "GOOGL">>) >>

\* A step that moves the current-session pointer to another session without a
\* session having been created.
Switched ==
    /\ session_id # None
    /\ session_id' # session_id
    /\ Len(server') = Len(server)

\* C12: selecting another existing session sets the pointer to the selected id
\* and nothing else: no create_session, stream query or get_session call is
\* made, the session list, the stored snapshots and every turn sequence are
\* unchanged, and the step is taken from Active, with no query in flight.
C12_SwitchChangesOnlyPointer ==
    [][Switched
        => /\ \E i \in 1..Len(sessions) : sessions[i].id = session_id'
           /\ UNCHANGED <<sessions, messages, server, createCalls, submits, user_id>>
           /\ call = NoCall /\ call' = NoCall
           /\ ControllerState(pc, session_id) = "Active"
           /\ ControllerState(pc', session_id') = "Active"]_vars

C12_Witness ==
    /\ pc = "rerun"
    /\ session_id = 1
    /\ Len(sessions) = 2
    /\ sessions[2].state = 1
    /\ Len(messages[2]) = 2
    /\ messages[1] = <<>>

Ids(list) == [i \in 1..Len(list) |-> list[i].id]

\* The session list update applied to `list` for session sid whose server state
\* is `state`.
Reconcile(list, sid, state) == ReplaceFirst(list, sid, SessionObj(sid, state))

\* C13: once a session has been reconciled, reconciling it again while its
\* server state is the same leaves the session list as it is, and this holds
\* for every further repetition; a reconciliation keeps the length and the
\* order of the list and duplicates no entry.
C13_IdempotentReconciliation ==
    [][(pc = "get_session" /\ outcome' = "committed")
        => LET sid == session_id
               once == sessions'
               twice == Reconcile(once, sid, server'[sid])
               thrice == Reconcile(twice, sid, server'[sid])
           IN /\ once = Reconcile(sessions, sid, server[sid])
              /\ server' = server
              /\ twice = once
              /\ thrice = once
              /\ Ids(once) = Ids(sessions)
              /\ Cardinality({ once[i].id : i \in 1..Len(once) }) = Len(once)]_vars

C13_Witness ==
    /\ outcome = "committed"
    /\ pc = "rerun"
    /\ session_id = 2
    /\ Len(sessions) = 2
    /\ sessions[2].state = 2
    /\ Len(messages[2]) = 4

\* C14: the id of a stored session record never changes and no record leaves
\* the list; every turn sequence is kept and only grows at its end, so its
\* value in an earlier state is a prefix of its value in every later state.
C14_StableIdentityAndHistory ==
    [][/\ Len(sessions') >= Len(sessions)
       /\ \A i \in 1..Len(sessions) : sessions'[i].id = sessions[i].id
       /\ DOMAIN messages \subseteq DOMAIN messages'
       /\ \A s \in DOMAIN messages : IsPrefix(messages[s], messages'[s])]_vars

C14_Witness ==
    /\ session_id = 1
    /\ Len(sessions) = 2
    /\ sessions[1].state = 1
    /\ sessions[2].state = 1
    /\ Len(messages[1]) = 2
    /\ Len(messages[2]) = 2

\* The configuration values a run cannot do without: deploy.py and update.py
\* pass all three to vertexai.init; the clients name the project as required
\* when the argument is a bare id.
RequiredEnv ==
    CASE cli_script \in {"deploy", "update"} -> EnvNames
      [] cli_script \in {"use_agent", "test_deployment"} /\ Len(cli_argv) = 2
           /\ ~StartsWithProjects(cli_argv[2]) -> {PROJECT}
      [] OTHER -> {}

DescriptiveMessages ==
    {"usage", "project_required", "missing_project", "missing_location",
     "missing_bucket"}

\* C15: when a required configuration value is absent, the entry point
\* performs no SDK or remote operation, and when it has ended it has ended
\* with a descriptive message, not with a traceback.
C15_MissingConfigurationStops ==
    (RequiredEnv \ cli_env # {})
        => /\ cli_ops = <<>>
           /\ cli_pc \in {"exited", "returned", "raised"}
                => cli_status \in DescriptiveMessages

\* C16: started without the resource argument, use_agent.py, test_deployment.py
\* and update.py perform no SDK or remote operation and end at the argument
\* check with the usage message and exit status 1.
C16_MissingArgumentStops ==
    (cli_script \in {"use_agent", "test_deployment", "update"} /\ Len(cli_argv) = 1)
        => /\ cli_ops = <<>>
           /\ cli_pc # "start"
                => /\ cli_pc = "exited"
                   /\ cli_status = "usage"
                   /\ cli_exit = 1

C16_Witness ==
    /\ cli_script = "update"
    /\ Len(cli_argv) = 1
    /\ cli_env = EnvNames
    /\ cli_pc = "exited"
    /\ cli_status = "usage"

\* C17: the step in which create_session returns appends one record, the one
\* of the returned id, to the session list, points the current session at that
\* id, gives that id an empty turn sequence and leaves every record and turn
\* sequence known before as it was.
C17_SessionCreation ==
    [][Len(server') > Len(server)
        => LET id == Len(server') IN
           /\ call = Call("create_session", user_id, None)
           /\ \A i \in 1..Len(sessions) : sessions[i].id # id
           /\ sessions' = Append(sessions, SessionObj(id, 0))
           /\ session_id' = id
           /\ DOMAIN messages' = DOMAIN messages \cup {id}
           /\ messages'[id] = <<>>
           /\ \A s \in DOMAIN messages : messages'[s] = messages[s]
           /\ ControllerState(pc', session_id') = "Active"]_vars

C17_Witness ==
    /\ pc = "rerun"
    /\ createCalls = 2
    /\ newChats = 1
    /\ submits = 1
    /\ session_id = 2
    /\ Len(sessions) = 2
    /\ messages[2] = <<>>
    /\ Len(messages[1]) = 2

\* A step of a request cycle: the submission, or a step taken while the stream
\* or the get_session call of the cycle is pending.
CycleStep == submits' # submits \/ pc \in {"streaming", "get_session"}

\* C18: the steps of a request cycle leave the pointer, the length and order
\* of the session list, and the record and the turn sequence of every session
\* other than the active one unchanged; the step that completes the cycle
\* stores the fetched snapshot in the one record whose id is the active id.
C18_QueryTouchesOwnSession ==
    [][CycleStep
        => /\ session_id' = session_id
           /\ Ids(sessions') = Ids(sessions)
           /\ \A i \in 1..Len(sessions) :
                 sessions[i].id # session_id => sessions'[i] = sessions[i]
           /\ DOMAIN messages' = DOMAIN messages
           /\ \A s \in DOMAIN messages :
                 s # session_id => messages'[s] = messages[s]
           /\ (pc = "get_session" /\ outcome' = "committed")
                => /\ Cardinality({ i \in 1..Len(sessions) :
                                      sessions[i].id = session_id }) = 1
                   /\ \A i \in 1..Len(sessions) :
                         sessions[i].id = session_id
                            => sessions'[i] = SessionObj(session_id, server[session_id])
                   /\ messages'[session_id] =
                         Append(messages[session_id], Turn("assistant", expected))]_vars

C18_Witness ==
    /\ outcome = "committed"
    /\ pc = "rerun"
    /\ session_id = 2
    /\ Len(sessions) = 2
    /\ sessions[1].state = 1
    /\ sessions[2].state = 1
    /\ Len(messages[1]) = 2
    /\ Len(messages[2]) = 2

\* C19: whenever a current session id is set, exactly one record of the
\* session list has that id and a turn sequence exists for it.
C19_PointerNeverDangling ==
    session_id # None
        => /\ Cardinality({ i \in 1..Len(sessions) : sessions[i].id = session_id }) = 1
           /\ session_id \in DOMAIN messages

C19_Witness ==
    /\ outcome = "committed"
    /\ pc = "idle"
    /\ session_id = 1
    /\ Len(sessions) = 2
    /\ sessions[1].state = 1
    /\ sessions[2].state = 0
    /\ messages[2] = <<>>

\* The turn sequences a step changes.
Touched == { s \in DOMAIN messages' : s \notin DOMAIN messages \/ messages'[s] # messages[s] }

\* C20: the user id never changes and every remote call is given it; in a
\* request cycle the user turn goes to the session the stream query is issued
\* for, get_session is called for the session of the stream query, and the
\* assistant turn goes to the session get_session was called for.
C20_OneSessionOneUser ==
    [][/\ user_id' = user_id
       /\ call'.op # "none" => call'.user_id = user_id
       /\ submits' # submits
            => /\ call'.op = "stream_query"
               /\ Touched = {call'.session_id}
               /\ Last(messages'[call'.session_id]).role = "user"
       /\ (call.op = "stream_query" /\ call'.op = "get_session")
            => call'.session_id = call.session_id
       /\ (call.op = "get_session" /\ outcome' = "committed")
            => /\ Touched = {call.session_id}
               /\ Last(messages'[call.session_id]).role = "assistant"]_vars

C20_Witness ==
    /\ pc = "get_session"
    /\ call = Call("get_session", "streamlit-user", 2)
    /\ Len(sessions) = 2
    /\ Len(messages[1]) = 2
    /\ Last(messages[2]).role = "user"
    /\ nChunks = 1

====
